---- MODULE Spec2Model ----
(***************************************************************************)
(* Streaming inference of a spatiotemporal (TENN) model, as presented in   *)
(* examples/plot_0_introduction_to_spatiotemporal_models.ipynb:            *)
(*   - the trained model is a chain of causal Conv3D layers (temporal      *)
(*     layers with kernel (K,1), spatial layers with kernel (1,S)) ending  *)
(*     with a pooling over the spatial dimensions only;                    *)
(*   - convert_to_buffer replaces each temporal layer by a BufferTempConv  *)
(*     (a convolution with a zero-initialised FIFO input buffer the size   *)
(*     of its kernel) and each spatial layer by a plain 2D convolution;    *)
(*   - frames are then passed one by one; the softmaxed outputs are        *)
(*     accumulated with a decay factor of 0.8.                             *)
(* Frames are tuples of integer pixel values; a belief is an exact         *)
(* rational vector kept as integer numerators over a known denominator.    *)
(***************************************************************************)
EXTENDS Integers, Sequences, FiniteSets, TLC

\* ---------------------------------------------------------------- bounds
MaxK == 3          \* largest temporal kernel size of a layer
MaxT == 3          \* frames fed to one stream since its last reset
StreamLen == 2     \* frames per stream when two streams are interleaved
AggLen == 4        \* frames per video seen by the aggregator alone

Pixels == 1..2                   \* spatial locations of a frame
Vals == {0, 1}                   \* pixel values
Frames == [Pixels -> Vals]
Depths == {1, 2}                 \* number of convolution layers of a graph
Streams == {1, 2}                \* independent videos in flight

\* ------------------------------------------------------------- arithmetic
RECURSIVE SumSeq(_)
SumSeq(s) == IF s = <<>> THEN 0 ELSE Head(s) + SumSeq(Tail(s))

RECURSIVE Pow(_, _)
Pow(b, e) == IF e = 0 THEN 1 ELSE b * Pow(b, e - 1)

ZeroFrame == [p \in Pixels |-> 0]

AddFrames(a, b) == [p \in DOMAIN a |-> a[p] + b[p]]

\* pixel p of frame x, zero outside the frame (spatial zero padding)
At(x, p) == IF p \in DOMAIN x THEN x[p] ELSE 0

\* 2D convolution of one frame with the spatial taps ws
SpatialConv(ws, x) ==
    [p \in DOMAIN x |->
        SumSeq([j \in 1..Len(ws) |->
                  ws[j] * At(x, p + j - 1 - ((Len(ws) - 1) \div 2))])]

\* dot product between a window of Len(w) frames (oldest first) and the kernel
RECURSIVE WindowDot(_, _)
WindowDot(w, window) ==
    IF w = <<>> THEN ZeroFrame
    ELSE AddFrames(SpatialConv(Head(w), Head(window)),
                   WindowDot(Tail(w), Tail(window)))

\* pooling over the spatial dimensions only (the average, times the pixel count)
Pool(x) == [p \in DOMAIN x |-> SumSeq([q \in 1..Len(x) |-> x[q]])]

\* ------------------------------------------------------- the trained model
\* a temporal layer: k taps of one weight each, all different (2, -3, 4, ...)
TLayer(k) ==
    [kind   |-> "Conv3D",
     kernel |-> [i \in 1..k |-> <<IF i % 2 = 1 THEN i + 1 ELSE 0 - (i + 1)>>]]

\* a spatial layer: one tap in time over neighbouring pixels
SLayer(ws) == [kind |-> "Conv3D", kernel |-> <<ws>>]

ConvLayers ==
    {TLayer(k) : k \in 1..MaxK}
        \cup {SLayer(<<2, -1>>), SLayer(<<1, 1>>)}

PoolLayer == [kind |-> "AvgPool3D", kernel |-> <<>>]

\* a chain of Conv3D layers, ending or not with the spatial pooling
Graphs ==
    LET chains == UNION {[1..d -> ConvLayers] : d \in Depths}
    IN  chains \cup {Append(g, PoolLayer) : g \in chains}

\* faulty variant: the padding shared between both sides
CausalPadCentered(K, xs) ==
    [i \in 1..((K - 1) \div 2) |-> ZeroFrame] \o xs
        \o [i \in 1..(K - 1 - ((K - 1) \div 2)) |-> ZeroFrame]

\* left-sided zero padding of a whole sequence for a kernel of K taps
CausalPad(K, xs) == [i \in 1..(K - 1) |-> ZeroFrame] \o xs

\* whole-sequence causal convolution, temporal stride 1
Conv3D(w, xs) ==
    [t \in 1..Len(xs) |->
        WindowDot(w, SubSeq(CausalPad(Len(w), xs), t, t + Len(w) - 1))]

BatchLayer(l, xs) ==
    IF l.kind = "Conv3D" THEN Conv3D(l.kernel, xs)
    ELSE [t \in 1..Len(xs) |-> Pool(xs[t])]

\* the trained model applied to a whole sequence of frames
RECURSIVE BatchModel(_, _)
BatchModel(g, xs) ==
    IF g = <<>> THEN xs ELSE BatchModel(Tail(g), BatchLayer(Head(g), xs))

\* ----------------------------------------------------- the bufferized model
\* faulty variant: every Conv3D gets a buffer, also with a temporal kernel size of 1
ConvertLayerAllBuffered(l) ==
    IF l.kind = "Conv3D"
    THEN [kind |-> "BufferTempConv", kernel |-> l.kernel]
    ELSE l

\* faulty variant: the kernel is stored reversed in time
ConvertLayerFlipped(l) ==
    IF l.kind = "Conv3D"
    THEN [kind   |-> IF Len(l.kernel) > 1 THEN "BufferTempConv" ELSE "Conv2D",
          kernel |-> [i \in 1..Len(l.kernel) |-> l.kernel[Len(l.kernel) + 1 - i]]]
    ELSE l

\* a temporal layer becomes a BufferTempConv, a spatial layer (temporal kernel
\* size 1) a Conv2D, with the weights of the layer; other layers are kept
ConvertLayer(l) ==
    IF l.kind = "Conv3D"
    THEN IF Len(l.kernel) > 1
         THEN [kind |-> "BufferTempConv", kernel |-> l.kernel]
         ELSE [kind |-> "Conv2D", kernel |-> l.kernel]
    ELSE l

ConvertGraph(g) == [i \in DOMAIN g |-> ConvertLayer(g[i])]

\* what the conversion recognizes, and what looks temporal to it
Recognized == {"Conv3D"}
TemporalLike == {"Conv3D", "ConvLSTM2D"}

\* layers that look temporal and are not recognized: the conversion fails on them
Offending(g) == {i \in DOMAIN g : g[i].kind \in TemporalLike \ Recognized}

\* faulty variant: the layers passed through are not reported
SkippedNone(g) == {}

\* layers that are not temporal: passed through unchanged and reported
SkippedLayers(g) == {i \in DOMAIN g : g[i].kind \notin TemporalLike}

Lowest(S) == CHOOSE i \in S : \A j \in S : i <= j

NoReport == [skipped |-> {}, error |-> 0]

\* the report of a conversion: the layers skipped, or the layer it failed on
ConvertReport(g) ==
    IF Offending(g) # {}
    THEN [skipped |-> {}, error |-> Lowest(Offending(g))]
    ELSE [skipped |-> SkippedLayers(g), error |-> 0]

\* the input buffer of a layer: the size of its kernel, initialised with zeros
NewBuffer(l) ==
    IF l.kind = "BufferTempConv"
    THEN [k \in 1..Len(l.kernel) |-> ZeroFrame]
    ELSE <<>>

InitialBuffers(m) == [i \in DOMAIN m |-> NewBuffer(m[i])]

\* faulty variant: only the buffer of the first layer is cleared
ResetFirstLayerOnly(m, b) ==
    [i \in DOMAIN m |->
        IF i = 1 THEN [k \in 1..Len(b[i]) |-> ZeroFrame] ELSE b[i]]

\* faulty variant: the newest frame of each buffer survives the reset
ResetKeepsNewest(m, b) ==
    [i \in DOMAIN m |->
        [k \in 1..Len(b[i]) |-> IF k = Len(b[i]) THEN b[i][k] ELSE ZeroFrame]]

\* reset_buffers: every buffer b[i] of the model back to zeros
ResetBuffersOf(m, b) ==
    [i \in DOMAIN m |-> [k \in 1..Len(b[i]) |-> ZeroFrame]]

\* faulty variant: the new value enters at the old end and the newest is removed
PushNewestFirst(buf, x) == <<x>> \o SubSeq(buf, 1, Len(buf) - 1)

\* faulty variant: the new value is added and nothing is removed
PushNoEvict(buf, x) == Append(buf, x)

\* faulty variant: the new value is added and the older ones are zeroed
PushAndForget(buf, x) == Append([k \in 1..(Len(buf) - 1) |-> ZeroFrame], x)

\* a new value is added to the buffer and the oldest value is removed
Push(buf, x) == Append(Tail(buf), x)

\* one layer of the bufferized model on one frame
LayerCall(l, buf, x) ==
    IF l.kind = "BufferTempConv"
    THEN LET nb == Push(buf, x)
         IN  [buf |-> nb, out |-> WindowDot(l.kernel, nb)]
    ELSE IF l.kind = "Conv2D"
    THEN [buf |-> buf, out |-> SpatialConv(l.kernel[1], x)]
    ELSE [buf |-> buf, out |-> Pool(x)]

\* the bufferized model on one frame: the new buffers, the output frame and
\* the activations (acts[i] is the input of layer i, the last one the output)
RECURSIVE Forward(_, _, _, _)
Forward(m, b, as, i) ==
    IF i > Len(m) THEN [bufs |-> b, out |-> as[Len(as)], acts |-> as]
    ELSE LET r == LayerCall(m[i], b[i], as[Len(as)])
         IN  Forward(m, [b EXCEPT ![i] = r.buf], Append(as, r.out), i + 1)

ModelCall(m, b, x) == Forward(m, b, <<x>>, 1)

\* frames passed one by one from the buffers b: the outputs
RECURSIVE StreamRun(_, _, _)
StreamRun(m, b, xs) ==
    IF xs = <<>> THEN <<>>
    ELSE LET r == ModelCall(m, b, Head(xs))
         IN  <<r.out>> \o StreamRun(m, r.bufs, Tail(xs))

\* ------------------------------------------------- the streaming aggregator
DecayNum == 4                    \* decay_factor = DecayNum / DecayDen = 0.8
DecayDen == 5
ProbUnit == 2 * DecayDen         \* softmaxed values are counted in tenths
Classes == 1..2

\* softmaxed outputs of the model for one frame: positive, summing to one
ProbVecs == {<<9, 1>>, <<2, 8>>, <<1, 9>>, <<5, 5>>}

\* a belief after n frames is num / BeliefDen(n), componentwise
BeliefDen(n) == ProbUnit * Pow(DecayDen, n - 1)

EmptyBelief == [num |-> [c \in Classes |-> 0], n |-> 0]

\* faulty variant: the old belief is added without being decayed
AggUpdateNoDecay(b, p) ==
    [num |-> [c \in Classes |-> Pow(DecayDen, b.n) * p[c] + DecayDen * b.num[c]],
     n   |-> b.n + 1]

\* faulty variant: the new output is added twice
AggUpdateTwice(b, p) ==
    [num |-> [c \in Classes |->
                 2 * Pow(DecayDen, b.n) * p[c] + DecayNum * b.num[c]],
     n |-> b.n + 1]

\* the softmaxed output p of the new frame plus the decayed old belief
AggUpdate(b, p) ==
    [num |-> [c \in Classes |-> Pow(DecayDen, b.n) * p[c] + DecayNum * b.num[c]],
     n   |-> b.n + 1]

\* the belief of a new sequence: empty again
AggReset(b) == [num |-> [c \in DOMAIN b.num |-> 0], n |-> 0]

\* the beliefs after each of the softmaxed outputs ps, aggregated alone
RECURSIVE AggRun(_, _)
AggRun(b, ps) == IF ps = <<>> THEN b ELSE AggRun(AggUpdate(b, Head(ps)), Tail(ps))

\* faulty variant: the highest index among equal largest components
ArgMaxLast(v) ==
    CHOOSE c \in DOMAIN v :
        /\ \A d \in DOMAIN v : v[d] <= v[c]
        /\ \A d \in DOMAIN v : v[d] = v[c] => d <= c

\* index of the largest component, the lowest one among equals
ArgMax(v) ==
    CHOOSE c \in DOMAIN v :
        /\ \A d \in DOMAIN v : v[d] <= v[c]
        /\ \A d \in DOMAIN v : v[d] = v[c] => c <= d

\* predicted class, numbered from 0
Predicted(b) == ArgMax(b.num) - 1

\* ------------------------------------------------------------------ state
VARIABLES
    trained,   \* the loaded model: the graph of the trained layers
    model,     \* the notebook's model: the trained graph, then the bufferized one
    stage,     \* "trained" before convert_to_buffer, "buffered" after
    bufs,      \* per stream, per layer: the FIFO buffer (oldest frame first)
    seq,       \* per stream: the frames fed since the last reset
    start,     \* per stream: how many frames of seq belong to earlier videos
    outs,      \* per stream: the output of the model for each frame of seq
    acts,      \* per stream: the activations of the last frame, layer by layer
    lastOp,    \* per stream: the last operation applied
    reused,    \* per stream: a reset has cleared buffers that had seen frames
    belief,    \* per stream: the running belief of the aggregator
    pseq,      \* per stream: the softmaxed outputs aggregated since its reset
    report,    \* what the conversion reported: layers skipped, layer in error
    pred,      \* per stream: the class last read from the belief
    pc,        \* the notebook step to run next
    env,       \* the names bound in the notebook so far
    devices,   \* the number of Akida devices akida.devices() returns
    compat,    \* whether a converted model can be mapped on the device
    printed,   \* the messages printed by the device cell
    mapped,    \* the device a model was mapped on, counted from 1; 0 for none
    log,       \* the notebook steps done, and the frames fed, in order
    handed     \* the buffers of the model handed to convert

nbVars == <<pc, env, devices, compat, printed, mapped, log, handed>>

vars == <<trained, model, stage, bufs, seq, start, outs, acts, lastOp, reused,
          belief, pseq, report, pred, nbVars>>

\* what feeding frames, resetting and aggregating leave alone
modelVars == <<trained, model, stage, report, pred, nbVars>>
bufVars == <<bufs, seq, start, outs, acts, reused>>
aggVars == <<belief, pseq>>

\* faulty variant: one instance shared by all the streams
Shared(f, s, v) == [t \in DOMAIN f |-> v]

\* every stream owns its instances: an update touches the instance of s only
Own(f, s, v) == [f EXCEPT ![s] = v]

\* frames and outputs of the video in progress
VideoFrames(s) == SubSeq(seq[s], start[s] + 1, Len(seq[s]))
VideoOuts(s) == SubSeq(outs[s], start[s] + 1, Len(outs[s]))

\* outside a run of the notebook's cells
NoNotebook ==
    /\ pc = "none"
    /\ env = {}
    /\ devices = 0
    /\ compat = FALSE
    /\ printed = <<>>
    /\ mapped = 0
    /\ log = <<>>
    /\ handed = <<>>

NoStreamState ==
    /\ pred = [s \in Streams |-> -1]
    /\ report = NoReport
    /\ bufs = [s \in Streams |-> <<>>]
    /\ seq = [s \in Streams |-> <<>>]
    /\ start = [s \in Streams |-> 0]
    /\ outs = [s \in Streams |-> <<>>]
    /\ acts = [s \in Streams |-> <<>>]
    /\ lastOp = [s \in Streams |-> "none"]
    /\ reused = [s \in Streams |-> FALSE]
    /\ belief = [s \in Streams |-> EmptyBelief]
    /\ pseq = [s \in Streams |-> <<>>]

\* the pre-trained model is loaded
Init ==
    /\ trained \in Graphs
    /\ model = trained
    /\ stage = "trained"
    /\ NoStreamState
    /\ NoNotebook

\* convert_to_buffer(model): the bufferized graph with its buffers, or a
\* failure on a layer that looks temporal and is not recognized
Converted ==
    /\ stage = "trained"
    /\ report' = ConvertReport(model)
    /\ IF Offending(model) # {}
       THEN /\ stage' = "failed"
            /\ UNCHANGED <<model, bufs>>
       ELSE /\ stage' = "buffered"
            /\ model' = ConvertGraph(model)
            /\ bufs' = [s \in Streams |-> InitialBuffers(model')]
    /\ lastOp' = [s \in Streams |-> "convert"]
    /\ UNCHANGED <<trained, seq, start, outs, acts, reused, belief, pseq, pred>>

\* model = convert_to_buffer(model)
ConvertToBuffer ==
    /\ Converted
    /\ UNCHANGED nbVars

\* what a frame and a reset leave alone, the notebook's own state apart
heldVars == <<trained, model, stage, report, pred, aggVars>>

\* the bufferized model of s is called on one frame of X
Fed(s, X) ==
    /\ stage = "buffered"
    /\ \E x \in X :
         LET r == ModelCall(model, bufs[s], x)
         IN  /\ bufs' = Own(bufs, s, r.bufs)
             /\ seq' = Own(seq, s, Append(seq[s], x))
             /\ outs' = Own(outs, s, Append(outs[s], r.out))
             /\ acts' = Own(acts, s, r.acts)
    /\ lastOp' = Own(lastOp, s, "frame")
    /\ UNCHANGED <<heldVars, start, reused>>

\* one frame is passed to the bufferized model
FrameStep(s) ==
    /\ Len(seq[s]) < MaxT
    /\ Fed(s, Frames)
    /\ UNCHANGED nbVars

\* the buffers of s are reset
Emptied(s) ==
    /\ stage = "buffered"
    /\ bufs' = Own(bufs, s, ResetBuffersOf(model, bufs[s]))
    /\ seq' = Own(seq, s, <<>>)
    /\ start' = Own(start, s, 0)
    /\ outs' = Own(outs, s, <<>>)
    /\ acts' = Own(acts, s, <<>>)
    /\ reused' = Own(reused, s, reused[s] \/ seq[s] # <<>>)
    /\ lastOp' = Own(lastOp, s, "reset")
    /\ UNCHANGED heldVars

\* reset_buffers(model)
ResetBuffers(s) ==
    /\ Emptied(s)
    /\ UNCHANGED nbVars

\* the next video starts and reset_buffers is not called
NewVideo(s) ==
    /\ stage = "buffered"
    /\ start[s] < Len(seq[s])
    /\ start' = Own(start, s, Len(seq[s]))
    /\ lastOp' = Own(lastOp, s, "newvideo")
    /\ UNCHANGED <<modelVars, bufs, seq, outs, acts, reused, aggVars>>

Next ==
    \/ ConvertToBuffer
    \/ FrameStep(1)
    \/ ResetBuffers(1)
    \/ NewVideo(1)

Spec == Init /\ [][Next]_vars

\* ------------------------------------------- the aggregator, and two streams
\* two bufferized models in use: one block ending with the pooling, and two
\* temporal layers in a row
StreamGraphs ==
    {<<TLayer(MaxK), SLayer(<<2, -1>>), PoolLayer>>,
     <<TLayer(2), TLayer(MaxK)>>}

StreamFrames == {<<0, 1>>, <<1, 0>>}
StreamProbs == {<<9, 1>>, <<2, 8>>}

\* a bufferized model, its buffers and beliefs as built
InitStreams ==
    /\ trained \in StreamGraphs
    /\ model = ConvertGraph(trained)
    /\ stage = "buffered"
    /\ bufs = [s \in Streams |-> InitialBuffers(model)]
    /\ seq = [s \in Streams |-> <<>>]
    /\ start = [s \in Streams |-> 0]
    /\ outs = [s \in Streams |-> <<>>]
    /\ acts = [s \in Streams |-> <<>>]
    /\ lastOp = [s \in Streams |-> "convert"]
    /\ reused = [s \in Streams |-> FALSE]
    /\ belief = [s \in Streams |-> EmptyBelief]
    /\ pseq = [s \in Streams |-> <<>>]
    /\ report = ConvertReport(trained)
    /\ pred = [s \in Streams |-> -1]
    /\ NoNotebook

\* the softmaxed output of one frame is added to the running belief
Aggregate(s) ==
    /\ Len(pseq[s]) < AggLen
    /\ \E p \in ProbVecs :
         /\ belief' = Own(belief, s, AggUpdate(belief[s], p))
         /\ pseq' = Own(pseq, s, Append(pseq[s], p))
    /\ lastOp' = Own(lastOp, s, "aggregate")
    /\ UNCHANGED <<modelVars, bufVars>>

\* the aggregator starts a new sequence
AggregatorReset(s) ==
    /\ belief' = Own(belief, s, AggReset(belief[s]))
    /\ pseq' = Own(pseq, s, <<>>)
    /\ lastOp' = Own(lastOp, s, "aggreset")
    /\ UNCHANGED <<modelVars, bufVars>>

\* the class predicted as of now is read from the running belief
ReadPrediction(s) ==
    /\ pseq[s] # <<>>
    /\ pred' = Own(pred, s, Predicted(belief[s]))
    /\ lastOp' = Own(lastOp, s, "read")
    /\ UNCHANGED <<trained, model, stage, report, nbVars, bufVars, aggVars>>

NextAgg ==
    \/ Aggregate(1)
    \/ AggregatorReset(1)
    \/ ReadPrediction(1)

SpecAgg == InitStreams /\ [][NextAgg]_vars

\* one frame of stream s: through the model, then softmaxed and aggregated
StreamFrame(s) ==
    /\ Len(seq[s]) < StreamLen
    /\ Len(pseq[s]) < StreamLen
    /\ \E x \in StreamFrames, p \in StreamProbs :
         LET r == ModelCall(model, bufs[s], x)
         IN  /\ bufs' = Own(bufs, s, r.bufs)
             /\ seq' = Own(seq, s, Append(seq[s], x))
             /\ outs' = Own(outs, s, Append(outs[s], r.out))
             /\ acts' = Own(acts, s, r.acts)
             /\ belief' = Own(belief, s, AggUpdate(belief[s], p))
             /\ pseq' = Own(pseq, s, Append(pseq[s], p))
    /\ lastOp' = Own(lastOp, s, "frame")
    /\ UNCHANGED <<modelVars, start, reused>>

\* a new video starts on stream s: its buffers and its belief are reset
StartSequence(s) ==
    /\ bufs' = Own(bufs, s, ResetBuffersOf(model, bufs[s]))
    /\ seq' = Own(seq, s, <<>>)
    /\ start' = Own(start, s, 0)
    /\ outs' = Own(outs, s, <<>>)
    /\ acts' = Own(acts, s, <<>>)
    /\ reused' = Own(reused, s, reused[s] \/ seq[s] # <<>>)
    /\ belief' = Own(belief, s, AggReset(belief[s]))
    /\ pseq' = Own(pseq, s, <<>>)
    /\ lastOp' = Own(lastOp, s, "reset")
    /\ UNCHANGED modelVars

NextStreams ==
    \/ \E s \in Streams : StreamFrame(s)
    \/ \E s \in Streams : StartSequence(s)

SpecStreams == InitStreams /\ [][NextStreams]_vars

\* ------------------------------------------------------------ the claims
\* the layers of the bufferized model that own a FIFO buffer
Buffered == {i \in DOMAIN model : model[i].kind = "BufferTempConv"}

\* the frames layer i of stream s has received since the last reset, as the
\* trained layers before it compute them from the whole sequence
LayerInputs(s, i) == BatchModel(SubSeq(trained, 1, i - 1), seq[s])

LastK(xs, k) == SubSeq(xs, Len(xs) - k + 1, Len(xs))

\* C1 (causal equivalence): when the buffers were reset (or just built) before
\* the first frame of the video, the outputs of the bufferized model for the
\* frames fed one by one are, at every step, the outputs of the trained model's
\* whole-sequence causal convolution; so is the output of every single layer
\* for the last frame.
CausalEquivalence ==
    \A s \in Streams :
        (stage = "buffered" /\ start[s] = 0) =>
            /\ outs[s] = BatchModel(trained, seq[s])
            /\ acts[s] # <<>> =>
                 \A i \in DOMAIN model :
                     acts[s][i + 1] =
                         BatchModel(SubSeq(trained, 1, i), seq[s])[Len(seq[s])]

CausalEquivalenceWitness ==
    /\ stage = "buffered" /\ start[1] = 0 /\ Len(seq[1]) = MaxT
    /\ \E i \in Buffered : Len(model[i].kernel) = MaxK
    /\ outs[1][MaxT] # outs[1][1]
    /\ outs[1][MaxT] # ZeroFrame

\* C2 (buffer capacity): a FIFO buffer always holds as many frames as its
\* layer's temporal kernel has taps, and once that many frames were pushed
\* since the last reset it holds exactly the most recent ones, oldest first.
BufferCapacity ==
    \A s \in Streams : \A i \in Buffered :
        LET K == Len(model[i].kernel)
        IN  /\ Len(bufs[s][i]) = K
            /\ Len(seq[s]) >= K => bufs[s][i] = LastK(LayerInputs(s, i), K)

BufferCapacityWitness ==
    /\ 1 \in Buffered
    /\ Len(seq[1]) > Len(model[1].kernel)
    /\ \A k \in DOMAIN bufs[1][1] : bufs[1][1][k] # seq[1][1]
    /\ bufs[1][1][1] # bufs[1][1][2]

\* C6 (degenerate spatial-only conversion): a layer whose temporal kernel size
\* is 1 is converted to a Conv2D that owns no buffer, and its output for a
\* frame is the convolution of that frame alone, whatever was fed before and
\* whether or not the buffers were reset.
SpatialOnly ==
    \A s \in Streams : \A i \in DOMAIN trained :
        (stage = "buffered" /\ trained[i].kind = "Conv3D"
           /\ Len(trained[i].kernel) = 1) =>
            /\ model[i].kind = "Conv2D"
            /\ bufs[s][i] = <<>>
            /\ acts[s] # <<>> =>
                 acts[s][i + 1] = Conv3D(trained[i].kernel, <<acts[s][i]>>)[1]

SpatialOnlyWitness ==
    /\ stage = "buffered" /\ start[1] > 0 /\ Len(seq[1]) > start[1]
    /\ Len(model) > 1
    /\ model[2].kind = "Conv2D" /\ Len(model[2].kernel[1]) > 1
    /\ 1 \in Buffered
    /\ acts[1][3] # ZeroFrame
    /\ acts[1][3] # acts[1][2]

\* C7 (causality, immediate output): every frame fed gives one output in the
\* same step, from the first frame on, and the output for frame t is what the
\* trained model computes from the frames up to t alone.
ImmediateCausal ==
    \A s \in Streams :
        /\ Len(outs[s]) = Len(seq[s])
        /\ \A t \in 1..Len(seq[s]) :
               outs[s][t] = BatchModel(trained, SubSeq(seq[s], 1, t))[t]

ImmediateCausalWitness ==
    /\ lastOp[1] = "frame" /\ Len(seq[1]) = 1
    /\ \E i \in Buffered : Len(model[i].kernel) = MaxK
    /\ outs[1][1] # ZeroFrame

\* C8 (model-level reset): reset_buffers leaves every buffer of every layer as
\* the conversion built it, and the outputs for the frames fed after a reset
\* are those of a freshly converted model fed the same frames.
ResetRestoresFresh ==
    \A s \in Streams :
        /\ lastOp[s] = "reset" => bufs[s] = InitialBuffers(ConvertGraph(trained))
        /\ (stage = "buffered" /\ start[s] = 0) =>
               outs[s] = StreamRun(model, InitialBuffers(model), seq[s])

ResetRestoresFreshWitness ==
    /\ reused[1] /\ start[1] = 0 /\ Len(seq[1]) > 1
    /\ Cardinality(Buffered) > 1
    /\ outs[1][Len(seq[1])] # ZeroFrame

\* C9 (sequence-boundary misuse): when frames of a new video are fed without a
\* reset, the outputs of the new video are those of the trained model
\* on the previous frames followed by the new ones (the buffers still hold the
\* previous video); they are the outputs of the new video alone when no layer
\* has a temporal kernel size above 1.
StaleLeak ==
    \A s \in Streams :
        stage = "buffered" =>
            /\ VideoOuts(s) =
                   SubSeq(BatchModel(trained, seq[s]), start[s] + 1, Len(seq[s]))
            /\ Buffered = {} => VideoOuts(s) = BatchModel(trained, VideoFrames(s))

\* a new video whose outputs differ from those a reset model gives for it
StaleLeakWitness ==
    /\ start[1] > 0 /\ Len(seq[1]) > start[1]
    /\ VideoOuts(1) # BatchModel(trained, VideoFrames(1))

SequenceIsolation ==
    /\ [](\A s \in Streams :
            /\ outs[s] = StreamRun(model, InitialBuffers(model), seq[s])
            /\ belief[s] = AggRun(EmptyBelief, pseq[s]))
    /\ [][\A r \in Streams :
            (StreamFrame(r) \/ StartSequence(r)) =>
                \A s \in Streams \ {r} :
                    /\ bufs'[s] = bufs[s]
                    /\ belief'[s] = belief[s]
                    /\ outs'[s] = outs[s]]_vars

\* both videos in progress, with different frames and different beliefs
SequenceIsolationWitness ==
    /\ Len(seq[1]) = StreamLen /\ Len(seq[2]) = StreamLen
    /\ lastOp[1] = "frame" /\ lastOp[2] = "frame"
    /\ outs[1] # outs[2]
    /\ bufs[1] # bufs[2]
    /\ belief[1] # belief[2]

\* C4 (reset idempotence): whatever was fed before, the reset leaves the
\* buffers as they were built (all zeros) and the belief empty as at
\* construction; a second reset changes neither.
ResetIdempotent ==
    /\ [](\A s \in Streams :
            lastOp[s] = "reset" =>
                /\ bufs[s] = InitialBuffers(model)
                /\ \A i \in Buffered : \A k \in DOMAIN bufs[s][i] :
                       bufs[s][i][k] = ZeroFrame
                /\ belief[s] = EmptyBelief)
    /\ [][\A s \in Streams :
            (lastOp[s] = "reset" /\ StartSequence(s)) =>
                bufs' = bufs /\ belief' = belief]_vars

\* the reset applied to a stream that had seen frames
ResetIdempotentWitness ==
    /\ reused[1] /\ lastOp[1] = "reset"
    /\ bufs[1] = InitialBuffers(model) /\ belief[1] = EmptyBelief
    /\ Len(seq[2]) = StreamLen /\ bufs[2] # bufs[1] /\ belief[2] # belief[1]

\* C5 (decay aggregation): the belief after the first frame is its softmaxed
\* output, and after every frame it is the frame's softmaxed output plus
\* decay_factor times the whole previous belief, that is the sum of the
\* softmaxed outputs so far, each decayed once per later frame; for the
\* outputs [0.9,0.1], [0.2,0.8], [0.1,0.9] the beliefs are [0.9,0.1],
\* [0.92,0.88], [0.836,1.604] and the predicted classes 0, 0, 1.
DecaySum(ps, c) ==
    SumSeq([k \in 1..Len(ps) |->
              Pow(DecayNum, Len(ps) - k) * Pow(DecayDen, k - 1) * ps[k][c]])

ExampleProbs == << <<9, 1>>, <<2, 8>>, <<1, 9>> >>

DecayAggregation ==
    \A s \in Streams :
        LET b == belief[s]
            n == Len(pseq[s])
        IN  /\ b.n = n
            /\ \A c \in Classes : b.num[c] = DecaySum(pseq[s], c)
            /\ n = 1 => b.num = pseq[s][1] /\ BeliefDen(n) = ProbUnit
            /\ pseq[s] = SubSeq(ExampleProbs, 1, 1) =>
                   /\ b.num = <<9, 1>> /\ BeliefDen(n) = 10
                   /\ Predicted(b) = 0
            /\ pseq[s] = SubSeq(ExampleProbs, 1, 2) =>
                   /\ 100 * b.num[1] = 92 * BeliefDen(n)
                   /\ 100 * b.num[2] = 88 * BeliefDen(n)
                   /\ Predicted(b) = 0
            /\ pseq[s] = ExampleProbs =>
                   /\ 1000 * b.num[1] = 836 * BeliefDen(n)
                   /\ 1000 * b.num[2] = 1604 * BeliefDen(n)
                   /\ Predicted(b) = 1

DecayAggregationWitness ==
    /\ pseq[1] = ExampleProbs
    /\ lastOp[1] = "aggregate"

\* ------------------------------------------- the notebook, run top to bottom
MaxDevices == 2

\* the two bufferized models of the notebook: model and model_quantized
Float == 1
Quantized == 2

\* faulty variant: convert comes before reset_buffers
CellsResetLate ==
    <<"convert_to_buffer", "devices", "eval_float", "quantize", "eval_quant",
      "convert", "reset_buffers", "done">>

\* the cells of the notebook in their order
Cells ==
    <<"convert_to_buffer", "devices", "eval_float", "quantize", "eval_quant",
      "reset_buffers", "convert", "done">>

\* the cell run after cell c
NextCell(c) == Cells[(CHOOSE i \in DOMAIN Cells : Cells[i] = c) + 1]

\* how many times e is in the log
Count(l, e) == Len(SelectSeq(l, LAMBDA x : x = e))

\* the model is loaded; the devices and their compatibility are the machine's
InitNotebook ==
    /\ trained \in StreamGraphs
    /\ model = trained
    /\ stage = "trained"
    /\ NoStreamState
    /\ pc = Cells[1]
    /\ env = {"model"}
    /\ devices \in 0..MaxDevices
    /\ compat \in BOOLEAN
    /\ printed = <<>>
    /\ mapped = 0
    /\ log = <<>>
    /\ handed = <<>>

\* model = convert_to_buffer(model)
CellConvertToBuffer ==
    /\ pc = "convert_to_buffer"
    /\ "model" \in env
    /\ Converted
    /\ pc' = NextCell(pc)
    /\ log' = Append(log, "convert_to_buffer")
    /\ UNCHANGED <<env, devices, compat, printed, mapped, handed>>

\* model_akida.map(device) inside try: the name is looked up, then map is
\* called; an exception of either goes to the except branch
TryMap ==
    IF "model_akida" \in env /\ compat
    THEN /\ mapped' = 1
         /\ printed' = printed \o <<"Available devices", "version",
                                    "Mapping to Akida device">>
    ELSE /\ mapped' = mapped
         /\ printed' = printed \o <<"Available devices", "version",
                            "Model not compatible with FPGA. Running on CPU.">>

\* devices = akida.devices(); the first one is mapped if there is any
CellDevices ==
    /\ pc = "devices"
    /\ IF devices > 0
       THEN TryMap
       ELSE /\ mapped' = mapped
            /\ printed' =
                 Append(printed, "No Akida devices found, running on CPU.")
    /\ pc' = NextCell(pc)
    /\ log' = Append(log, "devices")
    /\ UNCHANGED <<env, devices, compat, handed>>
    /\ UNCHANGED <<heldVars, bufVars, lastOp>>

\* evaluate_bufferized_model passes one more frame to the model of name
EvalFrame(cell, name, s) ==
    /\ pc = cell
    /\ name \in env
    /\ Count(log, name) < StreamLen
    /\ Fed(s, StreamFrames)
    /\ log' = Append(log, name)
    /\ UNCHANGED <<pc, env, devices, compat, printed, mapped, handed>>

\* evaluate_bufferized_model returns
EvalDone(cell, name) ==
    /\ pc = cell
    /\ name \in env
    /\ pc' = NextCell(pc)
    /\ log' = Append(log, cell)
    /\ UNCHANGED <<env, devices, compat, printed, mapped, handed>>
    /\ UNCHANGED <<heldVars, bufVars, lastOp>>

\* model_quantized = quantize(model, ...): whether the quantized model starts
\* from the buffers the float model was left with, or from new ones, is the
\* library's choice
CellQuantize ==
    /\ pc = "quantize"
    /\ "model" \in env
    /\ env' = env \cup {"model_quantized"}
    /\ \E from \in {0, Float} :
         LET Carry(f, fresh) ==
                 Own(f, Quantized, IF from = Float THEN f[Float] ELSE fresh)
         IN  /\ bufs' = Carry(bufs, InitialBuffers(model))
             /\ seq' = Carry(seq, <<>>)
             /\ start' = Carry(start, 0)
             /\ outs' = Carry(outs, <<>>)
             /\ acts' = Carry(acts, <<>>)
    /\ lastOp' = Own(lastOp, Quantized, "quantize")
    /\ pc' = NextCell(pc)
    /\ log' = Append(log, "quantize")
    /\ UNCHANGED <<heldVars, reused, devices, compat, printed, mapped, handed>>

\* reset_buffers(model_quantized)
CellResetBuffers ==
    /\ pc = "reset_buffers"
    /\ "model_quantized" \in env
    /\ Emptied(Quantized)
    /\ pc' = NextCell(pc)
    /\ log' = Append(log, "reset_buffers")
    /\ UNCHANGED <<env, devices, compat, printed, mapped, handed>>

\* akida_model = convert(model_quantized)
CellConvert ==
    /\ pc = "convert"
    /\ "model_quantized" \in env
    /\ env' = env \cup {"akida_model"}
    /\ handed' = bufs[Quantized]
    /\ pc' = NextCell(pc)
    /\ log' = Append(log, "convert")
    /\ UNCHANGED <<devices, compat, printed, mapped>>
    /\ UNCHANGED <<heldVars, bufVars, lastOp>>

NextNotebook ==
    \/ CellConvertToBuffer
    \/ CellDevices
    \/ EvalFrame("eval_float", "model", Float)
    \/ EvalDone("eval_float", "model")
    \/ CellQuantize
    \/ EvalFrame("eval_quant", "model_quantized", Quantized)
    \/ EvalDone("eval_quant", "model_quantized")
    \/ CellResetBuffers
    \/ CellConvert

SpecNotebook == InitNotebook /\ [][NextNotebook]_vars

\* ---------------------------------------------- conversion of any graph
LSTMLayer == [kind |-> "ConvLSTM2D", kernel |-> <<>>]

\* graphs of up to three layers, with layers the conversion does not recognize
ConvertInputs ==
    UNION {[1..d -> {TLayer(2), SLayer(<<1, 1>>), PoolLayer, LSTMLayer}] :
             d \in 1..3}

InitConvert ==
    /\ trained \in ConvertInputs
    /\ model = trained
    /\ stage = "trained"
    /\ NoStreamState
    /\ NoNotebook

NextConvert ==
    \/ ConvertToBuffer

SpecConvert == InitConvert /\ [][NextConvert]_vars

\* C11 (unrecognized layers are surfaced): a conversion that completes has
\* passed every layer it does not recognize as temporal through unchanged and
\* has reported it as skipped; a conversion that fails names a layer of the
\* graph that it does not recognize, and converts nothing.
UnrecognizedSurfaced ==
    /\ stage = "buffered" =>
          /\ report.error = 0
          /\ \A i \in DOMAIN trained :
                trained[i].kind \notin Recognized =>
                    model[i] = trained[i] /\ i \in report.skipped
          /\ \A i \in report.skipped : trained[i].kind \notin Recognized
    /\ stage = "failed" =>
          /\ report.error \in DOMAIN trained
          /\ trained[report.error].kind \notin Recognized
          /\ model = trained
    /\ stage = "trained" => report = NoReport

UnrecognizedSurfacedWitness ==
    /\ stage = "buffered" /\ Len(trained) = 3
    /\ report.skipped = {2}
    /\ model[1].kind = "BufferTempConv" /\ model[3].kind = "Conv2D"

\* C12 (prediction readout): a prediction read after at least one frame of the
\* sequence, at its end or before, is a class whose belief no other class
\* exceeds and that every class of lower index falls short of; and reading it
\* changes neither the belief nor the outputs aggregated.
PredictionReadout ==
    /\ [](lastOp[1] = "read" =>
            /\ pseq[1] # <<>>
            /\ pred[1] + 1 \in Classes
            /\ \A d \in Classes :
                  /\ belief[1].num[d] <= belief[1].num[pred[1] + 1]
                  /\ d < pred[1] + 1 =>
                        belief[1].num[d] < belief[1].num[pred[1] + 1])
    /\ [][lastOp'[1] = "read" => belief' = belief /\ pseq' = pseq]_vars

\* read in the middle of a sequence, two classes being equally believed
PredictionReadoutWitness ==
    /\ lastOp[1] = "read"
    /\ Len(pseq[1]) = 2 /\ Len(pseq[1]) < AggLen
    /\ belief[1].num[1] = belief[1].num[2]
    /\ pred[1] = 0

\* 1 + d + ... + d^(n-1) for the decay d, in units of 1 / DecayDen^(n-1)
GeoSum(n) == SumSeq([j \in 1..n |-> Pow(DecayNum, j - 1) * Pow(DecayDen, n - j)])

Said(m) == \E i \in DOMAIN printed : printed[i] = m

\* step e is in the log
Done(e) == \E i \in DOMAIN log : log[i] = e

\* C13 (device cell): once the device cell has run, with one or more devices
\* and a model the device accepts the model is mapped on the first device
\* and 'Mapping to Akida device' is printed; the fallback 'Model not compatible
\* with FPGA. Running on CPU.' is printed only if the map call itself fails;
\* and 'No Akida devices found, running on CPU.' only if there is no device.
DeviceCellMaps ==
    Done("devices") =>
        /\ devices > 0 /\ compat =>
              mapped = 1 /\ Said("Mapping to Akida device")
        /\ Said("Model not compatible with FPGA. Running on CPU.") =>
              devices > 0 /\ ~compat
        /\ Said("No Akida devices found, running on CPU.") => devices = 0

\* a device is there and accepts the model, and the cell fell back to the CPU:
\* the name model_akida is bound nowhere, even at the end of the run
DeviceCellFallsBack ==
    /\ pc = "done"
    /\ devices > 0 /\ compat
    /\ "akida_model" \in env /\ "model_akida" \notin env
    /\ mapped = 0
    /\ Said("Model not compatible with FPGA. Running on CPU.")

\* the steps of the pipeline, in the order the notebook has them
Pipeline ==
    <<"convert_to_buffer", "eval_float", "quantize", "eval_quant",
      "reset_buffers", "convert">>

\* the steps of the pipeline that were done, in the order they were done in
StepsDone == SelectSeq(log, LAMBDA e : \E i \in DOMAIN Pipeline : Pipeline[i] = e)

\* every buffer of b holds zero frames only
AllZero(b) ==
    \A i \in DOMAIN b : \A j \in DOMAIN b[i] : b[i][j] = ZeroFrame

\* C14 (pipeline order): in a run from top to bottom the steps are done in
\* the order convert_to_buffer, evaluation of the float model, quantize,
\* evaluation of the quantized model, reset_buffers, convert; frames go to a
\* model only during its evaluation, none to the quantized model after
\* reset_buffers; and the model handed to convert has all its buffers zero.
PipelineOrder ==
    /\ Len(StepsDone) <= Len(Pipeline)
    /\ StepsDone = SubSeq(Pipeline, 1, Len(StepsDone))
    /\ \A i, j \in DOMAIN log :
          /\ log[j] = "model" =>
                (log[i] = "convert_to_buffer" => i < j)
                /\ (log[i] = "eval_float" => j < i)
          /\ log[j] = "model_quantized" =>
                (log[i] = "quantize" => i < j)
                /\ (log[i] \in {"eval_quant", "reset_buffers", "convert"} => j < i)
    /\ Done("convert") =>
          /\ handed = bufs[Quantized]
          /\ handed = InitialBuffers(model)
          /\ AllZero(handed)

\* the whole run, both models fed, the quantized one reset after use
PipelineOrderWitness ==
    /\ pc = "done"
    /\ StepsDone = Pipeline
    /\ Count(log, "model") = StreamLen
    /\ Count(log, "model_quantized") = StreamLen
    /\ reused[Quantized]
    /\ handed # <<>> /\ AllZero(handed)

====
